---- MODULE Spec2Model ----
(***************************************************************************)
(* The character store of the D&D management application and the           *)
(* operations of Steamliteapp.py / Steamlite_allapp.py on it:              *)
(* get_connection (a connection cached per server process), transfer_gold *)
(* (one step per statement), insert_row, update_row and delete_row.        *)
(* The store is MySQL/InnoDB as the code uses it: one server session per   *)
(* client connection, autocommit off, exclusive row locks taken by         *)
(* SELECT ... FOR UPDATE and UPDATE and held until the session's           *)
(* transaction ends.                                                       *)
(***************************************************************************)
EXTENDS Integers, FiniteSets, Sequences, TLC

\* ------------------------------------------------------------- bounds
MaxGold == 2
MaxAmount == 1

Ids == {1, 2}
\* Names the forms submit, and the names the seeded creatures carry.
Names == {"a"}
SeedNames == {"a", "b"}
\* Script threads of the server processes.  s3 runs only in the episode of
\* three threads of one process.
Sessions == {"s1", "s2", "s3"}
Procs == {"p1", "p2"}
\* number_input of the forms gives gold >= 0.
GoldInputs == 0..MaxGold
\* Arguments of transfer_gold: session s1 passes any ids and any integer
\* amount, the others what the transfer form submits (two different
\* characters, number_input with min_value=1).
Amounts == (-1)..MaxAmount
\* The amounts a number_input without min_value lets through.
AnyAmounts == (-1)..MaxAmount
FormAmounts == 1..MaxAmount
FormArgs == {x \in [from : Ids, to : Ids, amount : FormAmounts] : x.from # x.to}
CallArgs(t) ==
    IF t = "s1" THEN [from : Ids, to : Ids, amount : Amounts]
    ELSE IF t = "s2" THEN FormArgs
    ELSE {}
\* Values a gold column is followed over.
InRange(v) == v >= -1 /\ v <= MaxGold

VARIABLES
    creatures,   \* ids with a row in Creatures
    cname,       \* creature_name of each Creatures row ("" where there is none)
    characters,  \* ids with a row in Characters
    gold,        \* committed gold of each Characters row (0 where there is none)
    lock,        \* owner of the exclusive row lock of each Characters row
    pend,        \* per connection: uncommitted gold written in its transaction
    pendRows,    \* per connection: uncommitted row inserts and deletes, and names
    inTxn,       \* per connection: the session has a transaction in progress
    cache,       \* per process: the connection st.cache_resource holds
    procOf,      \* the server process each session's script thread runs in
    pc,          \* per session: position inside transfer_gold
    args,        \* per session: from_id, to_id, amount of its call
    job,         \* per session: the insert, update or delete call it runs
    fromData,    \* per session: from_gold_data
    toData,      \* per session: to_gold_data
    exc,         \* per session: the exception being handled
    res,         \* per session: outcome of its transfer_gold call
    mine,        \* per session: its UPDATEs that are written and uncommitted
    landed,      \* per session: its UPDATEs that a COMMIT made permanent
    episode      \* a group of concurrent calls that is followed to its end

vars == <<creatures, cname, characters, gold, lock, pend, pendRows, inTxn, cache, procOf,
          pc, args, job, fromData, toData, exc, res, mine, landed, episode>>

db == <<creatures, cname, characters, gold>>
locals == <<pc, args, job, fromData, toData, exc, res>>

\* ------------------------------------------------------------- values
\* cursor.fetchone(): None, or the row; Unread before the statement ran.
Unread == [st |-> "unread", v |-> 0]
NoRow == [st |-> "none", v |-> 0]
Row(v) == [st |-> "row", v |-> v]

NoPend == [i \in Ids |-> <<>>]
\* Row changes of a transaction: per id "ins" or "del" for its Creatures and
\* its Characters row, and the creature_name written ("" for none).
NoRows == [cre |-> [i \in Ids |-> "none"], chr |-> [i \in Ids |-> "none"],
           name |-> [i \in Ids |-> ""]]
\* The session runs no insert, update or delete.  A call's record: the
\* handler, the id it addresses (0 before it is known), creature_name and
\* gold of its data (gold <<>> when the key is missing).
NoJob == [op |-> "none", pk |-> 0, name |-> "", gold |-> <<>>]
NoArgs == [from |-> 1, to |-> 1, amount |-> 0]
\* No group of calls is being followed.
NoEpisode == [kind |-> "none", gold0 |-> [i \in Ids |-> 0],
              call |-> [t \in Sessions |-> NoArgs], out |-> [t \in Sessions |-> "none"]]

Min(a, b) == IF a <= b THEN a ELSE b
SetMax(S) == IF S = {} THEN 0 ELSE CHOOSE x \in S : \A y \in S : y <= x

\* Outcomes of a call: returned (True, msg), returned (False, msg), or an
\* exception left the function.
Ok(r) == r = "ok"
Failed(r) == r \in {"notfound", "insufficient", "error", "timeout"}

\* ------------------------------------------------------------- the store
Proc(t) == procOf[t]

\* The connection object answers is_connected().
Connected(p) == cache[p] = "open"

\* What a statement of connection p reads for row i: its own uncommitted
\* write, else the committed value.
View(p, i) == IF pend[p][i] # <<>> THEN pend[p][i][1] ELSE gold[i]

\* The Creatures and Characters rows a statement of connection p finds: the
\* committed ones and what its own transaction inserted, less what it deleted.
RowsView(committed, changes) ==
    {i \in Ids : \/ changes[i] = "ins"
                 \/ i \in committed /\ changes[i] # "del"}

CreView(p) == RowsView(creatures, pendRows[p].cre)
ChrView(p) == RowsView(characters, pendRows[p].chr)
NameView(p, i) == IF pendRows[p].name[i] # "" THEN pendRows[p].name[i] ELSE cname[i]

\* Row i can be locked by connection p without waiting.
CanLock(p, i) == lock[i] \in {"free", p}

ReleaseAll(p) == [i \in Ids |-> IF lock[i] = p THEN "free" ELSE lock[i]]

\* COMMIT of connection p: its writes become the committed values.
Committed(p) ==
    [i \in Ids |-> IF i \in ChrView(p) THEN View(p, i) ELSE 0]

CommitStore(p) ==
    /\ creatures' = CreView(p)
    /\ characters' = ChrView(p)
    /\ cname' = [i \in Ids |-> IF i \in CreView(p) THEN NameView(p, i) ELSE ""]
    /\ gold' = Committed(p)

\* The server ends the transaction of connection p without keeping its
\* writes (ROLLBACK, or the session going away).
ServerAbort(p) ==
    /\ pend' = [pend EXCEPT ![p] = NoPend]
    /\ pendRows' = [pendRows EXCEPT ![p] = NoRows]
    /\ lock' = ReleaseAll(p)
    /\ inTxn' = [inTxn EXCEPT ![p] = FALSE]
    /\ mine' = [u \in Sessions |-> IF Proc(u) = p THEN {} ELSE mine[u]]

\* ------------------------------------------------------------- get_connection
\* The cached connection after get_connection() ran in process p: created on
\* the first call, the same object (open or closed) afterwards.
GetConnection(p) == IF cache[p] = "none" THEN "open" ELSE cache[p]

\* The server process of p may have been restarted (or its resource cache
\* cleared) since its last call ended: no script thread of it is running and
\* the cache is empty again.
CanRestart(p) == cache[p] = "closed" /\ \A t \in Sessions : Proc(t) = p => pc[t] = "idle"

\* The connection a call of process p starts with; fresh: the process was
\* restarted before the call.
Connection(p, fresh) == IF fresh THEN "open" ELSE GetConnection(p)

\* The finally block: close the cursor and the connection if is_connected().
\* Closing ends the session: the server rolls back what is open on it.
CloseIfConnected(p, c) ==
    IF c = "open"
    THEN /\ cache' = [cache EXCEPT ![p] = "closed"]
         /\ ServerAbort(p)
    ELSE /\ cache' = [cache EXCEPT ![p] = c]
         /\ UNCHANGED <<pend, pendRows, lock, inTxn, mine>>

\* ------------------------------------------------------------- transfer_gold
\* The row the statement at pc[t] addresses.
Target(t) == IF pc[t] \in {"sel1", "upd1"} THEN args[t].from ELSE args[t].to

\* The statement of t waits for a row lock another connection holds.
Blocked(t) ==
    /\ pc[t] \in {"sel1", "sel2", "upd1", "upd2"}
    /\ Connected(Proc(t))
    /\ Target(t) \in ChrView(Proc(t))
    /\ ~CanLock(Proc(t), Target(t))

\* A statement raised: control goes to the except handler.
Raise(t, e) ==
    /\ pc' = [pc EXCEPT ![t] = "rollback"]
    /\ exc' = [exc EXCEPT ![t] = e]

\* conn = get_connection(); cursor = conn.cursor().  cursor() is outside the
\* try: on a connection that is_connected() denies it raises and the
\* exception leaves transfer_gold.
CallTransfer(t, a, fresh) ==
    /\ pc[t] = "idle"
    /\ fresh => CanRestart(Proc(t))
    /\ LET c == Connection(Proc(t), fresh) IN
        /\ cache' = [cache EXCEPT ![Proc(t)] = c]
        /\ IF c = "open"
           THEN /\ pc' = [pc EXCEPT ![t] = "start"]
                /\ res' = res
           ELSE /\ pc' = [pc EXCEPT ![t] = "exit"]
                /\ res' = [res EXCEPT ![t] = "raised"]
    /\ args' = [args EXCEPT ![t] = a]
    /\ episode' = IF episode.kind # "none" THEN [episode EXCEPT !.call[t] = a] ELSE episode
    /\ UNCHANGED <<db, lock, pend, pendRows, inTxn, procOf, job, fromData, toData, exc, mine, landed>>

\* The statement that follows start_transaction() in transfer_gold and in
\* each handler.
FirstStatement(j) ==
    IF j.op = "insert" THEN "ins_check"
    ELSE IF j.op = "update" THEN "set_name"
    ELSE IF j.op = "delete" THEN "del_deps"
    ELSE "sel1"

\* conn.start_transaction(): refused while the session is in a transaction.
StartTransaction(t) ==
    /\ pc[t] = "start"
    /\ IF Connected(Proc(t)) /\ ~inTxn[Proc(t)]
       THEN /\ inTxn' = [inTxn EXCEPT ![Proc(t)] = TRUE]
            /\ pc' = [pc EXCEPT ![t] = FirstStatement(job[t])]
            /\ exc' = exc
       ELSE /\ Raise(t, "error")
            /\ inTxn' = inTxn
    /\ UNCHANGED <<db, lock, pend, pendRows, cache, procOf, args, job, fromData, toData, res,
                   mine, landed, episode>>

\* SELECT gold ... WHERE character_id = i FOR UPDATE; fetchone(): the row
\* read, and the locks after it.
LockAndRead(p, i) == IF i \in ChrView(p) THEN Row(View(p, i)) ELSE NoRow

LockTaken(p, i) == IF i \in ChrView(p) THEN [lock EXCEPT ![i] = p] ELSE lock

\* The row transfer_gold locks first, and the one it locks second.
FirstLocked(a) == a.from
SecondLocked(a) == a.to

\* The two checks after both rows were fetched.
CheckRows(fd, td, a) ==
    IF fd.st # "row" \/ td.st # "row" THEN "notfound"
    ELSE IF fd.v < a THEN "insufficient"
    ELSE "pass"

\* First SELECT ... FOR UPDATE.
SelectFrom(t) ==
    /\ pc[t] = "sel1"
    /\ ~Blocked(t)
    /\ IF Connected(Proc(t))
       THEN /\ fromData' = [fromData EXCEPT ![t] = LockAndRead(Proc(t), FirstLocked(args[t]))]
            /\ lock' = LockTaken(Proc(t), FirstLocked(args[t]))
            /\ inTxn' = [inTxn EXCEPT ![Proc(t)] = TRUE]
            /\ pc' = [pc EXCEPT ![t] = "sel2"]
            /\ exc' = exc
       ELSE /\ Raise(t, "error")
            /\ UNCHANGED <<fromData, lock, inTxn>>
    /\ UNCHANGED <<db, pend, pendRows, cache, procOf, args, job, toData, res, mine, landed, episode>>

\* Second SELECT ... FOR UPDATE; then the existence and sufficiency checks on
\* what was fetched.
SelectTo(t) ==
    /\ pc[t] = "sel2"
    /\ ~Blocked(t)
    /\ IF Connected(Proc(t))
       THEN LET td == LockAndRead(Proc(t), SecondLocked(args[t]))
                chk == CheckRows(fromData[t], td, args[t].amount) IN
            /\ toData' = [toData EXCEPT ![t] = td]
            /\ lock' = LockTaken(Proc(t), SecondLocked(args[t]))
            /\ inTxn' = [inTxn EXCEPT ![Proc(t)] = TRUE]
            /\ IF chk = "pass"
               THEN pc' = [pc EXCEPT ![t] = "upd1"] /\ exc' = exc
               ELSE Raise(t, chk)
       ELSE /\ Raise(t, "error")
            /\ UNCHANGED <<toData, lock, inTxn>>
    /\ UNCHANGED <<db, pend, pendRows, cache, procOf, args, job, fromData, res, mine, landed, episode>>

\* UPDATE ... SET gold = gold + d WHERE character_id = i on connection p.
DeltaWrite(p, i, d) ==
    IF i \in ChrView(p) THEN [pend EXCEPT ![p][i] = <<View(p, i) + d>>] ELSE pend

UpdateStep(t, i, d, what, next) ==
    /\ ~Blocked(t)
    /\ IF Connected(Proc(t))
       THEN /\ i \in ChrView(Proc(t)) => InRange(View(Proc(t), i) + d)
            /\ pend' = DeltaWrite(Proc(t), i, d)
            /\ lock' = LockTaken(Proc(t), i)
            /\ inTxn' = [inTxn EXCEPT ![Proc(t)] = TRUE]
            /\ mine' = IF i \in ChrView(Proc(t))
                       THEN [mine EXCEPT ![t] = @ \cup {what}] ELSE mine
            /\ pc' = [pc EXCEPT ![t] = next]
            /\ exc' = exc
       ELSE /\ Raise(t, "error")
            /\ UNCHANGED <<pend, lock, inTxn, mine>>
    /\ UNCHANGED <<db, pendRows, cache, procOf, args, job, fromData, toData, res, landed, episode>>

\* Deduct gold from the sender.
UpdateFrom(t) ==
    /\ pc[t] = "upd1"
    /\ UpdateStep(t, args[t].from, -args[t].amount, "debit", "upd2")

\* Add gold to the recipient.
UpdateTo(t) ==
    /\ pc[t] = "upd2"
    /\ UpdateStep(t, args[t].to, args[t].amount, "credit", "commit")

\* conn.commit(); return True, "Gold transfer successful!"
\* The COMMIT makes permanent what the session's transaction holds.
Commit(t) ==
    /\ pc[t] = "commit"
    /\ IF Connected(Proc(t))
       THEN /\ CommitStore(Proc(t))
            /\ ServerAbort(Proc(t))
            /\ landed' = [u \in Sessions |->
                            IF Proc(u) = Proc(t) THEN landed[u] \cup mine[u] ELSE landed[u]]
            /\ res' = [res EXCEPT ![t] = "ok"]
            /\ pc' = [pc EXCEPT ![t] = "exit"]
            /\ exc' = exc
       ELSE /\ Raise(t, "error")
            /\ UNCHANGED <<db, pend, pendRows, lock, inTxn, mine, landed, res>>
    /\ UNCHANGED <<cache, procOf, args, job, fromData, toData, episode>>

\* except Exception as e: conn.rollback(); return False, f"... {e}".
\* rollback() on a connection that is no longer connected raises, and that
\* exception leaves transfer_gold.
RollbackOutcome(connected, e) == IF connected THEN e ELSE "raised"

Rollback(t) ==
    /\ pc[t] = "rollback"
    /\ IF Connected(Proc(t))
       THEN ServerAbort(Proc(t))
       ELSE UNCHANGED <<pend, pendRows, lock, inTxn, mine>>
    /\ res' = [res EXCEPT ![t] = RollbackOutcome(Connected(Proc(t)), exc[t])]
    /\ pc' = [pc EXCEPT ![t] = "exit"]
    /\ UNCHANGED <<db, cache, procOf, args, job, fromData, toData, exc, landed, episode>>

\* finally: if conn and conn.is_connected(): cursor.close(); conn.close()
\* (when the try block was entered), then the outcome passes to the caller
\* and the call's frame is gone.
Exit(t) ==
    /\ pc[t] = "exit"
    /\ CloseIfConnected(Proc(t), cache[Proc(t)])
    /\ pc' = [pc EXCEPT ![t] = "idle"]
    /\ args' = [args EXCEPT ![t] = NoArgs]
    /\ job' = [job EXCEPT ![t] = NoJob]
    /\ fromData' = [fromData EXCEPT ![t] = Unread]
    /\ toData' = [toData EXCEPT ![t] = Unread]
    /\ exc' = [exc EXCEPT ![t] = "none"]
    /\ res' = [res EXCEPT ![t] = "none"]
    /\ landed' = [landed EXCEPT ![t] = {}]
    /\ episode' = IF episode.kind # "none" THEN [episode EXCEPT !.out[t] = res[t]] ELSE episode
    /\ UNCHANGED <<db, procOf>>

\* ------------------------------------------------------------- the server
\* An UPDATE or the COMMIT fails with a server error while the connection
\* stays up (query interrupted, statement refused).
WritingAt == {"upd1", "upd2", "commit", "ins_cre", "ins_chr", "set_name", "set_gold",
              "del_deps", "del_chr", "del_cre"}

StoreError(t) ==
    /\ pc[t] \in WritingAt
    /\ Connected(Proc(t))
    /\ Raise(t, "error")
    /\ UNCHANGED <<db, lock, pend, pendRows, inTxn, cache, procOf, args, job, fromData, toData,
                   res, mine, landed, episode>>

\* innodb_lock_wait_timeout: the statement waiting for a row lock fails; the
\* transaction stays open until the handler rolls it back.
LockWaitTimeout(t) ==
    /\ Blocked(t)
    /\ Raise(t, "timeout")
    /\ UNCHANGED <<db, lock, pend, pendRows, inTxn, cache, procOf, args, job, fromData, toData,
                   res, mine, landed, episode>>

\* Each of two transactions waits for a row lock the other holds.
WaitsOn(t, u) == Blocked(t) /\ lock[Target(t)] = Proc(u)

DeadlockCycle == \E t, u \in Sessions : t # u /\ WaitsOn(t, u) /\ WaitsOn(u, t)

\* InnoDB's deadlock detection: the victim's transaction is rolled back and
\* its statement fails.
DeadlockVictim(t) ==
    /\ \E u \in Sessions : u # t /\ WaitsOn(t, u) /\ WaitsOn(u, t)
    /\ ServerAbort(Proc(t))
    /\ Raise(t, "error")
    /\ UNCHANGED <<db, cache, procOf, args, job, fromData, toData, res, landed, episode>>

\* ------------------------------------------------------------- insert, update, delete
\* Each handler runs as one step: get_connection, cursor, start_transaction,
\* its statements, commit or rollback, and the close in finally.
\*   - cached connection closed: cursor() raises before anything is done;
\*   - the shared session already in a transaction: start_transaction raises,
\*     the handler rolls back (the session's open transaction) and closes;
\*   - otherwise body gives the committed rows, and the connection is closed.
Handler(t, fresh, body) ==
    /\ pc[t] = "idle"
    /\ fresh => CanRestart(Proc(t))
    /\ LET p == Proc(t)
           c == Connection(p, fresh) IN
        IF c = "closed"
        THEN UNCHANGED <<db, lock, pend, pendRows, inTxn, cache, mine>>
        ELSE IF inTxn[p]
        THEN /\ CloseIfConnected(p, c)
             /\ UNCHANGED db
        ELSE /\ body
             /\ CloseIfConnected(p, c)
    /\ UNCHANGED <<procOf, locals, landed, episode>>

\* lastrowid of the INSERT INTO Creatures.
NewId == SetMax(creatures \cup characters) + 1

\* insert_row(data): data = {creature_name: n, gold: g}.
InsertBody(p, n, g) ==
    LET existing == {i \in creatures : cname[i] = n} IN
    IF n = ""
    THEN UNCHANGED db                       \* ValueError, rollback
    ELSE IF existing # {}
    THEN \E e \in existing :                \* SELECT ... LIMIT 1
            /\ gold' = IF e \in characters /\ CanLock(p, e)
                       THEN [gold EXCEPT ![e] = g] ELSE gold
            /\ UNCHANGED <<creatures, cname, characters>>
    ELSE /\ NewId \in Ids
         /\ creatures' = creatures \cup {NewId}
         /\ cname' = [cname EXCEPT ![NewId] = n]
         /\ characters' = characters \cup {NewId}
         /\ gold' = [gold EXCEPT ![NewId] = g]

InsertRow(t, fresh, n, g) ==
    Handler(t, fresh, InsertBody(Proc(t), n, g))

\* update_row(pk, data): the name when it is not empty, the gold when given
\* (gopt = <<g>>, or <<>> for no gold key).
UpdateBody(p, pk, n, gopt) ==
    /\ pk \in characters => CanLock(p, pk) \/ gopt = <<>>
    /\ cname' = IF n # "" /\ pk \in creatures THEN [cname EXCEPT ![pk] = n] ELSE cname
    /\ gold' = IF gopt # <<>> /\ pk \in characters
               THEN [gold EXCEPT ![pk] = gopt[1]] ELSE gold
    /\ UNCHANGED <<creatures, characters>>

UpdateRow(t, fresh, pk, n, gopt) ==
    Handler(t, fresh, UpdateBody(Proc(t), pk, n, gopt))

\* delete_row(pk): the Characters row, then the Creatures row.
DeleteBody(p, pk) ==
    /\ pk \in characters => CanLock(p, pk)
    /\ characters' = characters \ {pk}
    /\ gold' = [gold EXCEPT ![pk] = 0]
    /\ creatures' = creatures \ {pk}
    /\ cname' = [cname EXCEPT ![pk] = ""]

DeleteRow(t, fresh, pk) ==
    Handler(t, fresh, DeleteBody(Proc(t), pk))

\* ------------------------------------------------------------- the handlers, statement by statement
\* insert_row, update_row and delete_row as the interpreter runs them: one
\* step per statement on the cached connection, so that statements of other
\* script threads (and their commits, rollbacks and closes) fall in between.
\* They share start_transaction, commit, the except handler and the finally
\* block with transfer_gold.
CallHandler(t, j, fresh) ==
    /\ pc[t] = "idle"
    /\ fresh => CanRestart(Proc(t))
    /\ LET c == Connection(Proc(t), fresh) IN
        /\ cache' = [cache EXCEPT ![Proc(t)] = c]
        /\ IF c = "open"
           THEN /\ pc' = [pc EXCEPT ![t] = "start"]
                /\ res' = res
           ELSE /\ pc' = [pc EXCEPT ![t] = "exit"]
                /\ res' = [res EXCEPT ![t] = "raised"]
    /\ job' = [job EXCEPT ![t] = j]
    /\ UNCHANGED <<db, lock, pend, pendRows, inTxn, procOf, args, fromData, toData, exc,
                   mine, landed, episode>>

\* A statement of a handler that changes nothing the model follows, or that
\* the handler skips: control moves on.
Goto(t, next) ==
    /\ pc' = [pc EXCEPT ![t] = next]
    /\ exc' = exc

\* SELECT creature_id FROM Creatures WHERE creature_name = n LIMIT 1.
NamedLike(p, n) == {i \in CreView(p) : NameView(p, i) = n}

\* if not creature_name: raise ValueError; else look the name up: an existing
\* creature's gold is set, a new name gets its two rows.
InsertCheck(t) ==
    /\ pc[t] = "ins_check"
    /\ LET p == Proc(t)
           found == NamedLike(p, job[t].name) IN
       IF job[t].name = "" \/ ~Connected(p)
       THEN /\ Raise(t, "error")
            /\ UNCHANGED <<job, inTxn>>
       ELSE /\ \E e \in (IF found = {} THEN {0} ELSE found) :
                /\ job' = [job EXCEPT ![t].pk = e]
                /\ Goto(t, IF e = 0 THEN "ins_cre" ELSE "set_gold")
            /\ inTxn' = [inTxn EXCEPT ![p] = TRUE]
    /\ UNCHANGED <<db, lock, pend, pendRows, cache, procOf, args, fromData, toData, res,
                   mine, landed, episode>>

\* cursor.lastrowid of INSERT INTO Creatures: above every id in use.
LastRowId ==
    SetMax(creatures \cup characters
           \cup {i \in Ids : \E q \in Procs : pendRows[q].cre[i] = "ins"}) + 1

\* INSERT INTO Creatures (creature_type, creature_name, ...).
InsertCreature(t) ==
    /\ pc[t] = "ins_cre"
    /\ LET p == Proc(t) IN
       IF Connected(p)
       THEN /\ LastRowId \in Ids
            /\ pendRows' = [pendRows EXCEPT ![p].cre[LastRowId] = "ins",
                                            ![p].name[LastRowId] = job[t].name]
            /\ job' = [job EXCEPT ![t].pk = LastRowId]
            /\ inTxn' = [inTxn EXCEPT ![p] = TRUE]
            /\ Goto(t, "ins_chr")
       ELSE /\ Raise(t, "error")
            /\ UNCHANGED <<pendRows, job, inTxn>>
    /\ UNCHANGED <<db, lock, pend, cache, procOf, args, fromData, toData, res, mine,
                   landed, episode>>

\* INSERT INTO Characters (character_id, race_id, class_id, gold): refused
\* when the Creatures row it refers to is not there, or the id is taken.
InsertCharacter(t) ==
    /\ pc[t] = "ins_chr"
    /\ LET p == Proc(t)
           i == job[t].pk IN
       IF Connected(p) /\ i \in CreView(p) /\ i \notin ChrView(p)
       THEN /\ pendRows' = [pendRows EXCEPT ![p].chr[i] = "ins"]
            /\ pend' = [pend EXCEPT ![p][i] = job[t].gold]
            /\ lock' = [lock EXCEPT ![i] = p]
            /\ inTxn' = [inTxn EXCEPT ![p] = TRUE]
            /\ Goto(t, "commit")
       ELSE /\ Raise(t, "error")
            /\ inTxn' = [inTxn EXCEPT ![p] = inTxn[p] \/ Connected(p)]
            /\ UNCHANGED <<pendRows, pend, lock>>
    /\ UNCHANGED <<db, cache, procOf, args, job, fromData, toData, res, mine, landed,
                   episode>>

\* if creature_name: UPDATE Creatures SET creature_name = n WHERE creature_id = pk.
SetName(t) ==
    /\ pc[t] = "set_name"
    /\ LET p == Proc(t)
           i == job[t].pk IN
       IF job[t].name = ""
       THEN /\ Goto(t, "set_gold")
            /\ UNCHANGED <<pendRows, inTxn>>
       ELSE IF Connected(p)
       THEN /\ pendRows' = IF i \in CreView(p)
                           THEN [pendRows EXCEPT ![p].name[i] = job[t].name] ELSE pendRows
            /\ inTxn' = [inTxn EXCEPT ![p] = TRUE]
            /\ Goto(t, "set_gold")
       ELSE /\ Raise(t, "error")
            /\ UNCHANGED <<pendRows, inTxn>>
    /\ UNCHANGED <<db, lock, pend, cache, procOf, args, job, fromData, toData, res, mine,
                   landed, episode>>

\* UPDATE Characters SET gold = g WHERE character_id = i on connection p: the
\* value of the data is written whatever the row holds.
SetWrite(p, i, g) ==
    IF i \in ChrView(p) THEN [pend EXCEPT ![p][i] = <<g>>] ELSE pend

\* if gold is not None: UPDATE Characters SET gold = %s (update_row), and the
\* same statement of insert_row for a name that exists.
SetGold(t) ==
    /\ pc[t] = "set_gold"
    /\ LET p == Proc(t)
           i == job[t].pk IN
       IF job[t].gold = <<>>
       THEN /\ Goto(t, "commit")
            /\ UNCHANGED <<pend, lock, inTxn>>
       ELSE IF Connected(p)
       THEN /\ CanLock(p, i)
            /\ pend' = SetWrite(p, i, job[t].gold[1])
            /\ lock' = LockTaken(p, i)
            /\ inTxn' = [inTxn EXCEPT ![p] = TRUE]
            /\ Goto(t, "commit")
       ELSE /\ Raise(t, "error")
            /\ UNCHANGED <<pend, lock, inTxn>>
    /\ UNCHANGED <<db, pendRows, cache, procOf, args, job, fromData, toData, res, mine,
                   landed, episode>>

\* DELETE FROM Character_Classes, Character_Spells, Character_Combats and
\* Inventory: rows the model does not follow.
DeleteDependents(t) ==
    /\ pc[t] = "del_deps"
    /\ IF Connected(Proc(t))
       THEN /\ inTxn' = [inTxn EXCEPT ![Proc(t)] = TRUE]
            /\ Goto(t, "del_chr")
       ELSE /\ Raise(t, "error")
            /\ inTxn' = inTxn
    /\ UNCHANGED <<db, lock, pend, pendRows, cache, procOf, args, job, fromData, toData,
                   res, mine, landed, episode>>

\* A DELETE of row i in a transaction: a row the transaction inserted is
\* gone, a committed one is marked.
Deleted(committed, changes, i) ==
    IF changes[i] = "ins" THEN [changes EXCEPT ![i] = "none"]
    ELSE IF i \in committed THEN [changes EXCEPT ![i] = "del"]
    ELSE changes

\* DELETE FROM Characters WHERE character_id = pk.
DeleteCharacter(t) ==
    /\ pc[t] = "del_chr"
    /\ LET p == Proc(t)
           i == job[t].pk IN
       IF Connected(p)
       THEN /\ CanLock(p, i)
            /\ pendRows' = [pendRows EXCEPT ![p].chr = Deleted(characters, @, i)]
            /\ pend' = [pend EXCEPT ![p][i] = <<>>]
            /\ lock' = LockTaken(p, i)
            /\ inTxn' = [inTxn EXCEPT ![p] = TRUE]
            /\ Goto(t, "del_cre")
       ELSE /\ Raise(t, "error")
            /\ UNCHANGED <<pendRows, pend, lock, inTxn>>
    /\ UNCHANGED <<db, cache, procOf, args, job, fromData, toData, res, mine, landed,
                   episode>>

\* DELETE FROM Creatures WHERE creature_id = pk: refused by the foreign key
\* while a Characters row refers to the creature.
DeleteCreature(t) ==
    /\ pc[t] = "del_cre"
    /\ LET p == Proc(t)
           i == job[t].pk IN
       IF Connected(p) /\ i \notin ChrView(p)
       THEN /\ pendRows' = [pendRows EXCEPT ![p].cre = Deleted(creatures, @, i),
                                            ![p].name[i] = ""]
            /\ inTxn' = [inTxn EXCEPT ![p] = TRUE]
            /\ Goto(t, "commit")
       ELSE /\ Raise(t, "error")
            /\ inTxn' = [inTxn EXCEPT ![p] = inTxn[p] \/ Connected(p)]
            /\ pendRows' = pendRows
    /\ UNCHANGED <<db, lock, pend, cache, procOf, args, job, fromData, toData, res, mine,
                   landed, episode>>

\* The statements of insert_row, of update_row and of delete_row.
InsertStatements(t) ==
    \/ InsertCheck(t)
    \/ InsertCreature(t)
    \/ InsertCharacter(t)
    \/ SetGold(t)

UpdateStatements(t) ==
    \/ SetName(t)
    \/ SetGold(t)

DeleteStatements(t) ==
    \/ DeleteDependents(t)
    \/ DeleteCharacter(t)
    \/ DeleteCreature(t)

\* ------------------------------------------------------------- specification
\* Two browser sessions, served by one server process (one cached connection)
\* or by two (the two entry points run side by side).
Clients == {"s1", "s2"}

Topologies ==
    { [t \in Sessions |-> "p1"],
      [t \in Sessions |-> IF t = "s2" THEN "p2" ELSE "p1"] }

SeedName(i) == IF i % 2 = 1 THEN "a" ELSE "b"

InitStore ==
    /\ creatures = Ids
    /\ characters = Ids
    /\ cname = [i \in Ids |-> SeedName(i)]
    /\ gold \in [Ids -> 0..MaxGold]
    /\ lock = [i \in Ids |-> "free"]
    /\ pend = [p \in Procs |-> NoPend]
    /\ pendRows = [p \in Procs |-> NoRows]
    /\ inTxn = [p \in Procs |-> FALSE]
    /\ cache = [p \in Procs |-> "none"]

InitLocals ==
    /\ pc = [t \in Sessions |-> "idle"]
    /\ args = [t \in Sessions |-> NoArgs]
    /\ job = [t \in Sessions |-> NoJob]
    /\ fromData = [t \in Sessions |-> Unread]
    /\ toData = [t \in Sessions |-> Unread]
    /\ exc = [t \in Sessions |-> "none"]
    /\ res = [t \in Sessions |-> "none"]
    /\ mine = [t \in Sessions |-> {}]
    /\ landed = [t \in Sessions |-> {}]

Init ==
    /\ InitStore
    /\ InitLocals
    /\ procOf \in Topologies
    /\ episode = NoEpisode

Next ==
    \/ \E t \in Clients, fresh \in BOOLEAN : \E a \in CallArgs(t) : CallTransfer(t, a, fresh)
    \/ \E t \in Clients : StartTransaction(t)
    \/ \E t \in Clients : SelectFrom(t)
    \/ \E t \in Clients : SelectTo(t)
    \/ \E t \in Clients : UpdateFrom(t)
    \/ \E t \in Clients : UpdateTo(t)
    \/ \E t \in Clients : Commit(t)
    \/ \E t \in Clients : Rollback(t)
    \/ \E t \in Clients : Exit(t)
    \/ \E t \in Clients : StoreError(t)
    \/ \E t \in Clients : LockWaitTimeout(t)
    \/ \E t \in Clients : DeadlockVictim(t)
    \/ \E t \in Clients, fresh \in BOOLEAN, n \in Names \cup {""}, g \in GoldInputs :
          InsertRow(t, fresh, n, g)
    \/ \E t \in Clients, fresh \in BOOLEAN, pk \in Ids, n \in Names \cup {""},
          gopt \in {<<>>} \cup {<<g>> : g \in GoldInputs} : UpdateRow(t, fresh, pk, n, gopt)
    \/ \E t \in Clients, fresh \in BOOLEAN, pk \in Ids : DeleteRow(t, fresh, pk)

Spec == Init /\ [][Next]_vars

\* ------------------------------------------------------------- episodes
\* A group of calls followed from the committed gold they start from to the
\* outcome each caller receives.
StartOf(kind) == [NoEpisode EXCEPT !.kind = kind, !.gold0 = gold]

\* The call joins the episode while no call of it has returned, so the calls
\* of an episode overlap.
EpisodeCall(t, a) ==
    /\ episode.call[t] = NoArgs
    /\ \A u \in Sessions : episode.out[u] = "none"
    /\ CallTransfer(t, a, FALSE)

\* The steps of transfer_gold after the call.
TransferStep(t) ==
    \/ StartTransaction(t)
    \/ SelectFrom(t)
    \/ SelectTo(t)
    \/ UpdateFrom(t)
    \/ UpdateTo(t)
    \/ Commit(t)
    \/ Rollback(t)
    \/ Exit(t)

\* Two sessions press "Transfer Gold" at the same time, one for 1 -> 2 and
\* the other for 2 -> 1.
Opposite(t) == IF t = "s1" THEN [from |-> 1, to |-> 2] ELSE [from |-> 2, to |-> 1]

InitPair ==
    /\ InitStore
    /\ InitLocals
    /\ procOf \in Topologies
    /\ episode = StartOf("pair")

NextPair ==
    \/ \E t \in Clients, m \in FormAmounts :
          EpisodeCall(t, [from |-> Opposite(t).from, to |-> Opposite(t).to, amount |-> m])
    \/ \E t \in Clients : TransferStep(t)
    \/ \E t \in Clients : DeadlockVictim(t)

SpecPair == InitPair /\ [][NextPair]_vars

\* Three script threads of one server process call transfer_gold with what
\* the form submits, on the one cached connection.
InitTrio ==
    /\ InitStore
    /\ InitLocals
    /\ procOf = [t \in Sessions |-> "p1"]
    /\ episode = StartOf("trio")

NextTrio ==
    \/ \E t \in Sessions, a \in FormArgs : EpisodeCall(t, a)
    \/ \E t \in Sessions : TransferStep(t)
    \/ \E t \in Sessions : StoreError(t)

SpecTrio == InitTrio /\ [][NextTrio]_vars

\* Two script threads of one server process and a session served by another
\* process call transfer_gold at the same time.
InitMixed ==
    /\ InitStore
    /\ InitLocals
    /\ procOf = [t \in Sessions |-> IF t = "s2" THEN "p2" ELSE "p1"]
    /\ episode = StartOf("mixed")

NextMixed ==
    \/ \E t \in Sessions, a \in FormArgs : EpisodeCall(t, a)
    \/ \E t \in Sessions : TransferStep(t)
    \/ \E t \in Sessions : LockWaitTimeout(t)
    \/ \E t \in Sessions : DeadlockVictim(t)

SpecMixed == InitMixed /\ [][NextMixed]_vars

\* Two presses of "Transfer Gold" one after the other in one server process:
\* each rerun of the script is a thread of its own (s1, then s3), and the
\* second call starts when the first has returned.
SeqCall(t, a) ==
    /\ episode.call[t] = NoArgs
    /\ t = "s3" => episode.out["s1"] # "none"
    /\ CallTransfer(t, a, FALSE)

InitSeq ==
    /\ InitStore
    /\ InitLocals
    /\ procOf = [t \in Sessions |-> "p1"]
    /\ episode = StartOf("seq")

NextSeq ==
    \/ \E t \in {"s1", "s3"}, a \in FormArgs : SeqCall(t, a)
    \/ \E t \in {"s1", "s3"} : TransferStep(t)

SpecSeq == InitSeq /\ [][NextSeq]_vars

\* Three script threads of one server process, one of them calling
\* transfer_gold with from_id = to_id (which the function accepts), so that
\* there is a character its call does not name.
SameArgs == {x \in [from : Ids, to : Ids, amount : FormAmounts] : x.from = x.to}

FrameArgs(t) == IF t = "s1" THEN SameArgs ELSE FormArgs

NextFrame ==
    \/ \E t \in Sessions : \E a \in FrameArgs(t) : EpisodeCall(t, a)
    \/ \E t \in Sessions : TransferStep(t)

SpecFrame == InitTrio /\ [][NextFrame]_vars

\* A handler call of an episode: each session calls once.
EpisodeHandler(t, j) ==
    /\ episode.out[t] = "none"
    /\ episode.call[t] = NoArgs
    /\ CallHandler(t, j, FALSE)

\* While one script thread deletes a character, two others of the same server
\* process transfer gold.
DeleteJobs == {[NoJob EXCEPT !.op = "delete", !.pk = i] : i \in Ids}

InitDelete ==
    /\ InitStore
    /\ InitLocals
    /\ procOf = [t \in Sessions |-> "p1"]
    /\ episode = StartOf("delete")

NextDelete ==
    \/ \E j \in DeleteJobs : EpisodeHandler("s1", j)
    \/ \E t \in {"s2", "s3"}, a \in FormArgs : EpisodeCall(t, a)
    \/ \E t \in Sessions : TransferStep(t)
    \/ DeleteStatements("s1")
    \/ StoreError("s1")

SpecDelete == InitDelete /\ [][NextDelete]_vars

\* The data insert_row is called with: a name in use, a new one or none (the
\* add form passes on only the names that are not empty), and a gold value
\* (number_input with min_value=0).
InsertNames == SeedNames \cup {""}
InsertJobs ==
    {[NoJob EXCEPT !.op = "insert", !.name = n, !.gold = <<g>>] :
        n \in InsertNames, g \in GoldInputs}

\* A store with one character, so that an insert has an id to give out.
InitOne ==
    /\ creatures = {1}
    /\ characters = {1}
    /\ cname = [i \in Ids |-> IF i = 1 THEN SeedName(i) ELSE ""]
    /\ gold \in {[i \in Ids |-> IF i = 1 THEN g ELSE 0] : g \in 0..MaxGold}
    /\ lock = [i \in Ids |-> "free"]
    /\ pend = [p \in Procs |-> NoPend]
    /\ pendRows = [p \in Procs |-> NoRows]
    /\ inTxn = [p \in Procs |-> FALSE]
    /\ cache = [p \in Procs |-> "none"]

\* Three script threads of one server process submit the add form at the same
\* time.
InitInsert ==
    /\ InitOne
    /\ InitLocals
    /\ procOf = [t \in Sessions |-> "p1"]
    /\ episode = StartOf("insert")

NextInsert ==
    \/ \E t \in Sessions, j \in InsertJobs : EpisodeHandler(t, j)
    \/ \E t \in Sessions : StartTransaction(t)
    \/ \E t \in Sessions : InsertStatements(t)
    \/ \E t \in Sessions : Commit(t)
    \/ \E t \in Sessions : Rollback(t)
    \/ \E t \in Sessions : Exit(t)

SpecInsert == InitInsert /\ [][NextInsert]_vars

\* The add form submitted twice, one call after the other, in one server
\* process: each rerun of the script is a thread of its own (s1, then s3).
SeqHandler(t, j) ==
    /\ episode.out[t] = "none"
    /\ t = "s3" => episode.out["s1"] # "none"
    /\ CallHandler(t, j, FALSE)

NextInsertSeq ==
    \/ \E t \in {"s1", "s3"}, j \in InsertJobs : SeqHandler(t, j)
    \/ \E t \in {"s1", "s3"} : StartTransaction(t)
    \/ \E t \in {"s1", "s3"} : InsertStatements(t)
    \/ \E t \in {"s1", "s3"} : Commit(t)
    \/ \E t \in {"s1", "s3"} : Rollback(t)
    \/ \E t \in {"s1", "s3"} : Exit(t)

SpecInsertSeq == InitInsert /\ [][NextInsertSeq]_vars

\* fetch_all(): the characters listed, Creatures joined with Characters.
Listing == creatures \cap characters

\* A script run renders the update form for the listed character i:
\* fetch_all() on the cached connection (closed again in its finally block),
\* then text_input and number_input filled with the row's name and gold.
\* The session keeps what the form displays.
RenderUpdateForm(t, fresh, i) ==
    /\ pc[t] = "idle"
    /\ job[t] = NoJob
    /\ episode.out[t] = "none"
    /\ fresh => CanRestart(Proc(t))
    /\ Connection(Proc(t), fresh) = "open"
    /\ i \in Listing
    /\ CloseIfConnected(Proc(t), "open")
    /\ job' = [job EXCEPT ![t] = [op |-> "form", pk |-> i, name |-> cname[i],
                                  gold |-> <<gold[i]>>]]
    /\ UNCHANGED <<db, procOf, pc, args, fromData, toData, exc, res, landed, episode>>

\* "Update Character" pressed with a new name typed and the gold field left
\* as displayed: update_row(pk, updated_data).
SubmitUpdate(t, fresh, n) ==
    /\ job[t].op = "form"
    /\ CallHandler(t, [job[t] EXCEPT !.op = "update", !.name = n], fresh)

\* One session renames a character through the update form while a session
\* served by another process transfers gold.
InitRename ==
    /\ InitStore
    /\ InitLocals
    /\ procOf = [t \in Sessions |-> IF t = "s2" THEN "p2" ELSE "p1"]
    /\ episode = StartOf("rename")

NextRename ==
    \/ \E fresh \in BOOLEAN, i \in Ids : RenderUpdateForm("s1", fresh, i)
    \/ \E fresh \in BOOLEAN, n \in Names : SubmitUpdate("s1", fresh, n)
    \/ UpdateStatements("s1")
    \/ \E a \in FormArgs : EpisodeCall("s2", a)
    \/ \E t \in Clients : TransferStep(t)

SpecRename == InitRename /\ [][NextRename]_vars

\* The Transfer Gold tab.  The "To" selectbox offers the listed characters
\* other than the one selected as "From".
ToOptions(rows, f) == rows \ {f}

\* The button handler: no call when from_id == to_id, nor when an id or the
\* amount is missing or 0.
ButtonCalls(f, to, m) == f # to /\ f # 0 /\ to # 0 /\ m # 0

\* The calls of transfer_gold the tab can make for the listing rows: none
\* while fewer than two characters are listed (the controls are disabled).
TransferForm(rows) ==
    IF Cardinality(rows) < 2 THEN {}
    ELSE {x \in [from : rows, to : rows, amount : FormAmounts] :
             x.to \in ToOptions(rows, x.from) /\ ButtonCalls(x.from, x.to, x.amount)}

\* A script run with "Transfer Gold" pressed: fetch_all() on the cached
\* connection, which its finally block closes, then the selections are read
\* and the button handler calls transfer_gold.  cleared: the resource cache
\* was cleared after the listing was fetched, so the call gets a connection
\* of its own.
PressTransfer(t, fresh, cleared, a) ==
    /\ pc[t] = "idle"
    /\ fresh => CanRestart(Proc(t))
    /\ Connection(Proc(t), fresh) = "open"
    /\ a \in TransferForm(Listing)
    /\ cleared => \A u \in Sessions \ {t} : Proc(u) = Proc(t) => pc[u] = "idle"
    /\ ServerAbort(Proc(t))
    /\ cache' = [cache EXCEPT ![Proc(t)] = IF cleared THEN "open" ELSE "closed"]
    /\ IF cleared
       THEN /\ pc' = [pc EXCEPT ![t] = "start"]
            /\ res' = res
       ELSE /\ pc' = [pc EXCEPT ![t] = "exit"]
            /\ res' = [res EXCEPT ![t] = "raised"]
    /\ args' = [args EXCEPT ![t] = a]
    /\ UNCHANGED <<db, procOf, job, fromData, toData, exc, landed, episode>>

\* The sessions use the Transfer Gold tab and the Delete Character tab.
NextForm ==
    \/ \E t \in Clients, fresh \in BOOLEAN, cleared \in BOOLEAN :
          \E a \in TransferForm(Listing) : PressTransfer(t, fresh, cleared, a)
    \/ \E t \in Clients : TransferStep(t)
    \/ \E t \in Clients, fresh \in BOOLEAN, pk \in Listing : DeleteRow(t, fresh, pk)

SpecForm == Init /\ [][NextForm]_vars

\* ------------------------------------------------------------- the two entry points
\* The functions of Steamliteapp.py and of Steamlite_allapp.py, each called
\* with no other call in progress, as functions of the stored rows and of the
\* process's cached connection (w).  A call gives the rows and the connection
\* after it, what the caller receives (flag: "ok" for True, "raised" for an
\* exception, else False), the message shown and the rows returned.
TARGET_TABLE_NAME == "Characters"
\* A table other than the one the application is configured for.
OTHER_TABLE == "Monsters"
TABLE_NAME == "Characters"

World ==
    [creatures |-> creatures, cname |-> cname, characters |-> characters,
     gold |-> gold, conn |-> cache["p1"]]

Outcome(w, flag, msg, rows) == [w |-> w, flag |-> flag, msg |-> msg, rows |-> rows]

\* conn = get_connection(); cursor = conn.cursor(); try: r finally: close.
\* r is what the try block makes of w on a connection that is open.
Framed(w, r) ==
    IF w.conn = "closed" THEN Outcome(w, "raised", "", {})
    ELSE [r EXCEPT !.w.conn = "closed"]

\* SELECT ... FROM Creatures JOIN table WHERE creature_type = 'Character',
\* or SELECT * FROM another table.
FetchOutcome(table, w) ==
    Outcome(w, "ok", "", IF table = "Characters" THEN w.creatures \cap w.characters ELSE {})

\* The try block of insert_row; msg is the text of its ValueError.
InsertOutcome(table, msg, w, n, g) ==
    LET found == {i \in w.creatures : w.cname[i] = n}
        e == CHOOSE i \in found : \A k \in found : i <= k
        id == SetMax(w.creatures \cup w.characters) + 1
    IN  IF table # "Characters" THEN Outcome(w, "ok", "Record added", {})
        ELSE IF n = "" THEN Outcome(w, "error", msg, {})
        ELSE IF found # {}
        THEN Outcome(IF e \in w.characters THEN [w EXCEPT !.gold[e] = g] ELSE w,
                     "ok", "added/updated", {})
        ELSE Outcome([w EXCEPT !.creatures = @ \cup {id}, !.cname[id] = n,
                               !.characters = @ \cup {id}, !.gold[id] = g],
                     "ok", "added/updated", {})

\* The try block of update_row.
UpdateOutcome(table, w, pk, n, gopt) ==
    LET named == IF n # "" /\ pk \in w.creatures THEN [w EXCEPT !.cname[pk] = n] ELSE w
        paid == IF gopt # <<>> /\ pk \in w.characters
                THEN [named EXCEPT !.gold[pk] = gopt[1]] ELSE named
    IN  IF table # "Characters" THEN Outcome(w, "ok", "Record updated", {})
        ELSE Outcome(paid, "ok", "updated", {})

\* The try block of delete_row.
DeleteOutcome(table, w, pk) ==
    IF table # "Characters" THEN Outcome(w, "ok", "Record deleted", {})
    ELSE Outcome([w EXCEPT !.characters = @ \ {pk}, !.gold[pk] = 0,
                           !.creatures = @ \ {pk}, !.cname[pk] = ""],
                 "ok", "deleted", {})

\* The try block of transfer_gold; msg is the text of its ValueError for
\* insufficient gold.
TransferOutcome(table, msg, w, a) ==
    LET rows == IF table = "Characters" THEN w.characters ELSE {}
        fd == IF a.from \in rows THEN Row(w.gold[a.from]) ELSE NoRow
        td == IF a.to \in rows THEN Row(w.gold[a.to]) ELSE NoRow
        chk == CheckRows(fd, td, a.amount)
        debited == [w EXCEPT !.gold[a.from] = @ - a.amount]
        credited == [debited EXCEPT !.gold[a.to] = @ + a.amount]
    IN  IF chk = "pass" THEN Outcome(credited, "ok", "Gold transfer successful!", {})
        ELSE IF chk = "insufficient" THEN Outcome(w, chk, msg, {})
        ELSE Outcome(w, chk, "One or both characters not found.", {})

\* Steamliteapp.py
fetch_all_generic(w) == Framed(w, FetchOutcome(TARGET_TABLE_NAME, w))

insert_row_generic(w, n, g) ==
    Framed(w, InsertOutcome(TARGET_TABLE_NAME,
                            "Creature Name is required for a new Character.", w, n, g))

update_row_generic(w, pk, n, gopt) ==
    Framed(w, UpdateOutcome(TARGET_TABLE_NAME, w, pk, n, gopt))

delete_row_generic(w, pk) == Framed(w, DeleteOutcome(TARGET_TABLE_NAME, w, pk))

transfer_gold(w, a) ==
    Framed(w, TransferOutcome(TARGET_TABLE_NAME, "Insufficient gold to transfer.", w, a))

\* Steamlite_allapp.py
fetch_all(w) == Framed(w, FetchOutcome(TABLE_NAME, w))

insert_row(w, n, g) ==
    Framed(w, InsertOutcome(TABLE_NAME, "Character Name is required.", w, n, g))

update_row(w, id_val, n, gopt) == Framed(w, UpdateOutcome(TABLE_NAME, w, id_val, n, gopt))

delete_row(w, id_val) == Framed(w, DeleteOutcome(TABLE_NAME, w, id_val))

transfer_gold_allapp(w, a) ==
    Framed(w, TransferOutcome(TABLE_NAME, "Insufficient gold to transfer!", w, a))

\* The operations a sequence is made of.
NoOperation == [kind |-> "none", pk |-> 0, name |-> "", gold |-> <<>>, a |-> NoArgs]

Operations ==
    {[NoOperation EXCEPT !.kind = "fetch"]}
    \cup {[NoOperation EXCEPT !.kind = "insert", !.name = n, !.gold = <<g>>] :
            n \in Names \cup {""}, g \in GoldInputs}
    \cup {[NoOperation EXCEPT !.kind = "update", !.pk = i, !.name = n, !.gold = gopt] :
            i \in Ids, n \in Names \cup {""}, gopt \in {<<>>} \cup {<<g>> : g \in GoldInputs}}
    \cup {[NoOperation EXCEPT !.kind = "delete", !.pk = i] : i \in Ids}
    \cup {[NoOperation EXCEPT !.kind = "transfer", !.a = x] :
            x \in [from : Ids, to : Ids, amount : Amounts]}

EntryPoints == {"Steamliteapp", "Steamlite_allapp"}

Run(app, w, op) ==
    IF app = "Steamliteapp"
    THEN CASE op.kind = "fetch" -> fetch_all_generic(w)
           [] op.kind = "insert" -> insert_row_generic(w, op.name, op.gold[1])
           [] op.kind = "update" -> update_row_generic(w, op.pk, op.name, op.gold)
           [] op.kind = "delete" -> delete_row_generic(w, op.pk)
           [] OTHER -> transfer_gold(w, op.a)
    ELSE CASE op.kind = "fetch" -> fetch_all(w)
           [] op.kind = "insert" -> insert_row(w, op.name, op.gold[1])
           [] op.kind = "update" -> update_row(w, op.pk, op.name, op.gold)
           [] op.kind = "delete" -> delete_row(w, op.pk)
           [] OTHER -> transfer_gold_allapp(w, op.a)

\* One call of an entry point's function on the store, the values kept within
\* the range that is followed.
Operate(app, op) ==
    LET r == Run(app, World, op) IN
    /\ r.w.creatures \subseteq Ids
    /\ \A i \in Ids : InRange(r.w.gold[i])
    /\ creatures' = r.w.creatures
    /\ cname' = r.w.cname
    /\ characters' = r.w.characters
    /\ gold' = r.w.gold
    /\ cache' = [cache EXCEPT !["p1"] = r.w.conn]
    /\ UNCHANGED <<lock, pend, pendRows, inTxn, procOf, locals, mine, landed, episode>>

\* The server process is restarted, or its resource cache cleared: the next
\* get_connection() connects anew.
ClearCache ==
    /\ cache["p1"] = "closed"
    /\ cache' = [cache EXCEPT !["p1"] = "none"]
    /\ UNCHANGED <<db, lock, pend, pendRows, inTxn, procOf, locals, mine, landed, episode>>

InitEquiv ==
    /\ InitStore
    /\ InitLocals
    /\ procOf = [t \in Sessions |-> "p1"]
    /\ episode = StartOf("equiv")

NextEquiv ==
    \/ \E app \in EntryPoints, op \in Operations : Operate(app, op)
    \/ ClearCache

SpecEquiv == InitEquiv /\ [][NextEquiv]_vars

TypeOK ==
    /\ creatures \subseteq Ids /\ characters \subseteq Ids
    /\ cname \in [Ids -> Names \cup SeedNames \cup {""}]
    /\ \A i \in Ids : InRange(gold[i])
    /\ lock \in [Ids -> Procs \cup {"free"}]
    /\ inTxn \in [Procs -> BOOLEAN]
    /\ cache \in [Procs -> {"none", "open", "closed"}]
    /\ pc \in [Sessions -> {"idle", "start", "sel1", "sel2", "rollback", "exit", "ins_check"}
                            \cup WritingAt]
    /\ res \in [Sessions -> {"none", "ok", "notfound", "insufficient", "error", "timeout",
                             "raised"}]


\* ------------------------------------------------------------- claims
\* The call of t is a transfer between two different characters of a
\* positive amount that found both rows and enough gold on the source.
ValidTransfer(t) ==
    /\ args[t].from # args[t].to
    /\ args[t].amount > 0
    /\ fromData[t].st = "row" /\ toData[t].st = "row"
    /\ fromData[t].v >= args[t].amount

\* No other call is in progress and no transaction is open: what is committed
\* is what the call of t will find.
Quiet(t) ==
    /\ \A u \in Sessions \ {t} : pc[u] = "idle"
    /\ \A p \in Procs : ~inTxn[p] /\ pend[p] = NoPend
    /\ \A i \in Ids : lock[i] = "free"

\* t calls transfer_gold in this step and the call is over at once.
CallEndsAtOnce(t) == pc[t] = "idle" /\ pc'[t] = "exit"

\* C1: the COMMIT of a valid transfer that returns success lowers the
\* committed gold of the source by exactly amount and raises that of the
\* destination by exactly amount, so their sum is unchanged.
C1_ExactMove ==
    [][\A t \in Sessions :
          (pc[t] = "commit" /\ pc'[t] = "exit" /\ Ok(res'[t]) /\ ValidTransfer(t))
          => /\ gold'[args[t].from] = gold[args[t].from] - args[t].amount
             /\ gold'[args[t].to] = gold[args[t].to] + args[t].amount
             /\ gold'[args[t].from] + gold'[args[t].to]
                  = gold[args[t].from] + gold[args[t].to]]_vars

\* C2: a call that is about to return failure has none of its UPDATEs made
\* permanent: neither its deduction nor its credit is in the committed gold.
C2_FailureLeavesNothing ==
    \A t \in Sessions : (pc[t] = "exit" /\ Failed(res[t])) => landed[t] = {}

\* C3: no state has each of two calls waiting for the row lock the other
\* one holds.
C3_NoDeadlock == ~DeadlockCycle

\* C4: the first row lock a call takes is on the lower of its two ids,
\* whichever of them is from_id.
C4_LowerIdFirst ==
    [][\A t \in Sessions :
          (/\ pc[t] = "sel1" /\ pc'[t] = "sel2"
           /\ args[t].from # args[t].to
           /\ {args[t].from, args[t].to} \subseteq characters)
          => lock'[Min(args[t].from, args[t].to)] = Proc(t)]_vars

\* Running call a alone on committed gold g: the gold after it and whether
\* it returns success.
RunAlone(g, a) ==
    IF g[a.from] < a.amount
    THEN [gold |-> g, ok |-> FALSE]
    ELSE [gold |-> [[g EXCEPT ![a.from] = @ - a.amount] EXCEPT ![a.to] = @ + a.amount],
          ok |-> TRUE]

\* Running a and then b: final gold and the two ok flags.
RunInOrder(g, a, b) ==
    LET r1 == RunAlone(g, a)
        r2 == RunAlone(r1.gold, b) IN
    [gold |-> r2.gold, first |-> r1.ok, second |-> r2.ok]

PairReturned == episode.kind = "pair" /\ \A t \in Clients : episode.out[t] # "none"

MatchesOrder(t, u) ==
    LET r == RunInOrder(episode.gold0, episode.call[t], episode.call[u]) IN
    /\ gold = r.gold
    /\ Ok(episode.out[t]) = r.first
    /\ Ok(episode.out[u]) = r.second

\* C5: when two overlapping transfers in opposite directions have both
\* returned, the committed gold and the two ok flags are those of running
\* the two calls one after the other in one of the two orders.
C5_Serializable ==
    PairReturned => MatchesOrder("s1", "s2") \/ MatchesOrder("s2", "s1")

\* C6: a transfer_gold call between two existing characters whose source
\* holds less gold than amount returns failure with the
\* insufficient-gold reason.
C6_InsufficientReported ==
    [][\A t \in Sessions :
          (/\ CallEndsAtOnce(t) /\ Quiet(t)
           /\ {args'[t].from, args'[t].to} \subseteq characters
           /\ args'[t].from # args'[t].to
           /\ args'[t].amount > 0
           /\ gold[args'[t].from] < args'[t].amount)
          => res'[t] = "insufficient"]_vars

\* C7: transfer_gold called with from_id = to_id (and a positive amount)
\* never returns success.
C7_SameCharacterRefused ==
    \A t \in Sessions :
        (pc[t] = "exit" /\ args[t].from = args[t].to /\ args[t].amount > 0) => ~Ok(res[t])

\* C8: transfer_gold called with amount <= 0 (between two different
\* characters) never returns success.
C8_AmountValidated ==
    \A t \in Sessions :
        (pc[t] = "exit" /\ args[t].amount <= 0 /\ args[t].from # args[t].to) => ~Ok(res[t])

\* C9: a transfer_gold call (two different ids, positive amount) in which
\* from_id or to_id has no Characters row returns failure with the not-found
\* reason.
C9_NotFoundReported ==
    [][\A t \in Sessions :
          (/\ CallEndsAtOnce(t) /\ Quiet(t)
           /\ args'[t].from # args'[t].to
           /\ args'[t].amount > 0
           /\ ~({args'[t].from, args'[t].to} \subseteq characters))
          => res'[t] = "notfound"]_vars

\* C10: the committed gold of every character is non-negative in every
\* reachable state.
C10_GoldNonNegative == \A i \in characters : gold[i] >= 0

\* Session t takes a step of its transfer_gold call.
Steps(t) == pc'[t] # pc[t]

\* C11: no exception leaves transfer_gold: whatever fails, and at whichever
\* step (cursor creation included), the caller receives (False, message).
C11_NoExceptionEscapes == \A t \in Sessions : res[t] # "raised"

\* C12: concurrent calls have their own connection and transaction: no
\* start_transaction of a call is refused, and no step of a call changes
\* which uncommitted UPDATEs another call has in flight.
C12_OwnTransaction ==
    [][\A t \in Sessions :
          Steps(t) =>
             /\ ~(pc[t] = "start" /\ pc'[t] = "rollback")
             /\ \A u \in Sessions \ {t} : mine'[u] = mine[u]]_vars

\* C13: a call ended by a lock-wait timeout rolls back and returns failure;
\* when it returns, its connection holds no row lock and no pending write,
\* and no UPDATE of the call is pending or committed.
C13_TimeoutRollsBack ==
    [][\A t \in Sessions :
          (pc[t] = "rollback" /\ exc[t] = "timeout" /\ pc'[t] = "exit")
          => /\ Failed(res'[t])
             /\ mine'[t] = {} /\ landed'[t] = {}
             /\ pend'[Proc(t)] = NoPend
             /\ \A i \in Ids : lock'[i] # Proc(t)]_vars

\* Both calls of the two presses in succession have returned.
SeqReturned ==
    /\ episode.kind = "seq"
    /\ episode.out["s1"] # "none" /\ episode.out["s3"] # "none"

\* C14: transfer_gold(A, B, n) called twice in succession in one process,
\* with A holding at least 2n: both calls return success, A ends lower by
\* 2n and B higher by 2n.
C14_SecondCallMovesAgain ==
    LET a == episode.call["s1"] IN
    (/\ SeqReturned
     /\ episode.call["s3"] = a
     /\ episode.gold0[a.from] >= 2 * a.amount)
    => /\ Ok(episode.out["s1"]) /\ Ok(episode.out["s3"])
       /\ gold[a.from] = episode.gold0[a.from] - 2 * a.amount
       /\ gold[a.to] = episode.gold0[a.to] + 2 * a.amount

\* C15: a transfer the source can pay, followed by a transfer between the
\* same characters that exceeds what the source has left: the first returns
\* success, the second returns failure for insufficient gold, and the gold
\* after the second call is what the first call produced.
C15_ThenInsufficient ==
    LET a == episode.call["s1"]
        b == episode.call["s3"]
        first == RunAlone(episode.gold0, a) IN
    (/\ SeqReturned
     /\ a.from = b.from /\ a.to = b.to
     /\ first.ok
     /\ first.gold[b.from] < b.amount)
    => /\ Ok(episode.out["s1"])
       /\ episode.out["s3"] = "insufficient"
       /\ gold = first.gold

\* C16: a step of a transfer_gold call changes nothing but the gold of the
\* two characters the call names: the Creatures and Characters rows, the
\* names and the gold of every other character stay as they are.
C16_Frame ==
    [][\A t \in Sessions :
          (Steps(t) /\ pc[t] # "idle")
          => /\ creatures' = creatures /\ characters' = characters /\ cname' = cname
             /\ \A i \in Ids \ {args[t].from, args[t].to} : gold'[i] = gold[i]]_vars

\* C17: the outcome a call is about to return agrees with the store: success
\* exactly when both of its UPDATEs were made permanent, failure exactly when
\* none of them was.
C17_OutcomeAgreesWithStore ==
    \A t \in Sessions :
        pc[t] = "exit" =>
            /\ Ok(res[t]) => landed[t] = {"debit", "credit"}
            /\ Failed(res[t]) => landed[t] = {}

\* C18: the sufficiency decision is taken on the balance the call holds
\* locked: the gold the deduction is applied to is the gold the check saw,
\* and the commit of a transfer of a positive amount never leaves the source
\* below zero.
C18_CheckedUnderLock ==
    [][\A t \in Sessions :
          /\ (pc[t] = "upd1" /\ pc'[t] = "upd2" /\ args[t].from \in characters)
                => View(Proc(t), args[t].from) = fromData[t].v
          /\ (pc[t] = "commit" /\ Ok(res'[t]) /\ args[t].amount > 0)
                => gold'[args[t].from] >= 0]_vars

\* What the call of t adds to the gold of character i when it succeeds.
Effect(t, i) ==
    LET a == episode.call[t] IN
    IF Ok(episode.out[t])
    THEN (IF a.to = i THEN a.amount ELSE 0) - (IF a.from = i THEN a.amount ELSE 0)
    ELSE 0

NetEffect(i) == Effect("s1", i) + Effect("s2", i) + Effect("s3", i)

\* C19: when the concurrent calls have returned, each character's gold is
\* its initial gold plus the net amount of the transfers that returned
\* success, and the total gold is what it was.
C19_NoLostUpdate ==
    PairReturned =>
        /\ \A i \in Ids : gold[i] = episode.gold0[i] + NetEffect(i)
        /\ gold[1] + gold[2] = episode.gold0[1] + episode.gold0[2]

\* C20: a row lock a call has taken stays with it while the call itself is
\* not taking a step: no step of another call releases it.
C20_LocksHeldToTheEnd ==
    [][\A t \in Sessions :
          (/\ pc[t] \in {"sel2", "upd1", "upd2", "commit"}
           /\ ~Steps(t)
           /\ fromData[t].st = "row"
           /\ lock[args[t].from] = Proc(t))
          => lock'[args[t].from] = Proc(t)]_vars

\* C21: a call with from_id = to_id or amount <= 0 is refused before the
\* store is touched: it never has a transaction started, never runs a
\* SELECT ... FOR UPDATE and never goes on to the UPDATEs.
C21_ValidatedBeforeStore ==
    \A t \in Sessions :
        (args[t].from = args[t].to \/ args[t].amount <= 0)
            => pc[t] \notin {"sel1", "sel2", "upd1", "upd2", "commit"}

\* C22: a delete_row call ends with the character's Characters and Creatures
\* rows both gone when it reports success, and both still there when it does
\* not (all of its DELETEs or none).
C22_DeleteAllOrNothing ==
    \A t \in Sessions :
        pc[t] = "exit" /\ job[t].op = "delete"
            => IF Ok(res[t])
               THEN job[t].pk \notin creatures \cup characters
               ELSE job[t].pk \in creatures \cap characters

\* C25: once the calls are over, every Characters row has a Creatures row of
\* the same id and every creature an insert created has its Characters row:
\* an insert that fails after writing the Creatures row leaves neither row.
C25_RowsCoupled ==
    (\A t \in Sessions : pc[t] = "idle") => characters = creatures

\* The step after which only the finally block of t's call is left: the
\* call's outcome is decided.
Ends(t) == pc[t] # "exit" /\ pc'[t] = "exit"

\* C23: an insert_row call for a name that some creature already carries
\* returns True, creates no Creatures or Characters row and leaves the
\* character of that name with the submitted gold.
C23_DuplicateNameSetsGold ==
    [][\A t \in Sessions :
          /\ Ends(t)
          /\ job'[t].op = "insert"
          /\ \E e \in creatures : cname[e] = job'[t].name
          => /\ Ok(res'[t])
             /\ creatures' = creatures /\ characters' = characters
             /\ \A e \in characters :
                    cname[e] = job'[t].name => gold'[e] = job'[t].gold[1]]_vars

\* C27: an insert_row call without a creature_name returns False and leaves
\* Creatures and Characters as they were; no exception leaves the call.
C27_EmptyNameRefused ==
    [][\A t \in Sessions :
          Ends(t) /\ job'[t].op = "insert" /\ job'[t].name = ""
              => Failed(res'[t]) /\ db' = db]_vars

\* C26: renaming a character through the update form, the gold field left as
\* displayed, takes nothing from the transfers committed since the form was
\* rendered: the gold stored in all is what it was.
C26_RenameKeepsTransfers ==
    gold[1] + gold[2] = episode.gold0[1] + episode.gold0[2]

\* C24: whenever the Transfer Gold tab calls transfer_gold, at least two
\* characters are listed, from_id and to_id are two different listed
\* characters and the amount is at least 1; the destination choices never
\* contain the selected source, and the button handler makes no call for
\* from_id = to_id or for an amount of 0.
C24_FormCallsValid ==
    /\ [](\A f \in Listing : f \notin ToOptions(Listing, f))
    /\ [](\A f \in Ids, to \in Ids, m \in AnyAmounts :
              (f = to \/ m = 0) => ~ButtonCalls(f, to, m))
    /\ [][\A t \in Sessions :
            pc[t] = "idle" /\ pc'[t] # "idle"
                => /\ Cardinality(Listing) >= 2
                   /\ args'[t].from # args'[t].to
                   /\ {args'[t].from, args'[t].to} \subseteq Listing
                   /\ args'[t].amount >= 1]_vars

\* C24 (witness): a call made by the tab is under way, for two different
\* characters and an amount of at least 1.
C24_FormCalled ==
    \E t \in Sessions :
        /\ pc[t] \in {"start", "sel1"}
        /\ args[t] \in FormArgs

====
